---- MODULE Spec2Model ----
(***************************************************************************)
(* Plate generator: the motif resolver chain, the PlateCanvas component    *)
(* life cycle (motif effect, export handle) and the paint pass (layout,    *)
(* mirrored tiling, per-plate compositing) of src/components/PlateCanvas.  *)
(*                                                                         *)
(* Numbers that are fractional in the program (scale, plate pixel sizes)   *)
(* are exact rationals [n, d]; Math.floor / Math.round are computed on     *)
(* them with integer division.                                             *)
(***************************************************************************)
EXTENDS Integers, Sequences, FiniteSets, TLC

VARIABLES
    mounted,        \* PlateCanvas is mounted (canvasRef.current is the canvas)
    motifSrc,       \* prop motifSrc: 0 = null/undefined, k > 0 = k-th object URL
    img,            \* useState img (PlateCanvas.tsx:101)
    motifSource,    \* useState motifSource (PlateCanvas.tsx:102)
    tasks,          \* one record per run of the motif effect (its closure)
    completed,      \* ids of the resolutions in the order their promise settled
    lastExport,     \* what the last exportPNG call saw and did
    plates,         \* prop plates: sequence of [widthCm, heightCm]
    containerSize,  \* useState containerSize (PlateCanvas.tsx:135)
    dirty,          \* the paint effect is scheduled (a dependency changed)
    painted,        \* what the last paint pass computed and drew
    tiling,         \* the tiling loop's locals (L, R, i) and the tiles drawn so far
    nextId,         \* the next id crypto.randomUUID() hands out
    ops,            \* the operations the controls have issued: count and last one
    objectUrls      \* the object URLs created and revoked so far

vars == <<mounted, motifSrc, img, motifSource, tasks, completed, lastExport,
          plates, containerSize, dirty, painted, tiling, nextId, ops, objectUrls>>

componentVars == <<mounted, motifSrc, motifSource, tasks, completed, lastExport>>
paintVars == <<plates, containerSize, dirty, painted>>
appVars == <<nextId, ops>>

(***************************************************************************)
(* Bounds                                                                  *)
(***************************************************************************)
\* number of motif files the user uploads (each yields a fresh object URL)
MaxUploads == 1
\* longest plate sequence handed to the canvas
MaxPlates == 5

(***************************************************************************)
(* Images                                                                  *)
(***************************************************************************)
\* img === null
NoImage == [src |-> "null", naturalWidth |-> 0, naturalHeight |-> 0]

DEFAULT_MOTIF == "https://rueckwand24.com/...-HB.jpg"
fallbackMotif == "/motif-fallback.jpg"

\* the locator string of the k-th object URL
LocatorOf(k) == IF k = 1 THEN "blob:1" ELSE IF k = 2 THEN "blob:2"
                ELSE IF k = 3 THEN "blob:3" ELSE "blob:n"

\* The decoded HTMLImageElement the host hands to onload for a locator.
ImageOf(src) ==
    IF src = DEFAULT_MOTIF THEN [src |-> src, naturalWidth |-> 1200, naturalHeight |-> 800]
    ELSE IF src = fallbackMotif THEN [src |-> src, naturalWidth |-> 600, naturalHeight |-> 600]
    ELSE [src |-> src, naturalWidth |-> 100, naturalHeight |-> 400]

(***************************************************************************)
(* loadMotifChainDetailed: one record per call.                            *)
(*   pc       which loadImageWithTimeout the call awaits, or "done"        *)
(*   outcomes how each attempted load settled ("untried" if never started) *)
(*   result   the value the returned promise resolved with                 *)
(*   rejected the returned promise rejected                                *)
(*   alive    the effect closure's flag (PlateCanvas.tsx:117)              *)
(*   applied  the then-callback wrote the component state                  *)
(***************************************************************************)
Tiers == <<"user", "remote", "local">>

\* if (userSrc): null, undefined and "" are falsy
Truthy(src) == src # 0

SrcOfTier(tier, userSrc) ==
    IF tier = "user" THEN LocatorOf(userSrc)
    ELSE IF tier = "remote" THEN DEFAULT_MOTIF
    ELSE fallbackMotif

\* the first await of the chain for this userSrc
FirstTier(userSrc) == IF Truthy(userSrc) THEN "user" ELSE "remote"

\* catch { /* continue */ }: the tier tried after `tier` rejected
NextTierMissingRemote(tier) == "local"
NextTier(tier) == IF tier = "user" THEN "remote" ELSE "local"

NewTask(userSrc) ==
    [userSrc  |-> userSrc,
     alive    |-> TRUE,
     pc       |-> FirstTier(userSrc),
     outcomes |-> [user |-> "untried", remote |-> "untried", local |-> "untried"],
     result   |-> [img |-> NoImage, source |-> "pending"],
     rejected |-> FALSE,
     applied  |-> FALSE]

\* The chain returning { img: null, source: "local" } when every load failed.
ChainStepNoneAsLocal(t, outcome) ==
    LET t1 == [t EXCEPT !.outcomes[t.pc] = outcome]
    IN  IF outcome = "success"
        THEN [t1 EXCEPT !.pc = "done",
                        !.result = [img |-> ImageOf(SrcOfTier(t.pc, t.userSrc)),
                                    source |-> t.pc]]
        ELSE IF t.pc = "local"
        THEN [t1 EXCEPT !.pc = "done",
                        !.result = [img |-> NoImage, source |-> "local"]]
        ELSE [t1 EXCEPT !.pc = NextTier(t.pc)]

\* The chain after the awaited load of task t settled with `outcome`
\* ("success" resolves the load promise; "error" and "timeout" reject it).
ChainStep(t, outcome) ==
    LET t1 == [t EXCEPT !.outcomes[t.pc] = outcome]
    IN  IF outcome = "success"
        THEN [t1 EXCEPT !.pc = "done",
                        !.result = [img |-> ImageOf(SrcOfTier(t.pc, t.userSrc)),
                                    source |-> t.pc]]
        ELSE IF t.pc = "local"
        THEN [t1 EXCEPT !.pc = "done",
                        !.result = [img |-> NoImage, source |-> "none"]]
        ELSE [t1 EXCEPT !.pc = NextTier(t.pc)]

\* if (!alive) return;
StillCurrentIgnored(t) == TRUE
StillCurrent(t) == t.alive

\* The .then / .catch callbacks of the motif effect, run when the chain's
\* promise settles: what they leave in <<img, motifSource>>.
EffectCallback(t) ==
    IF ~StillCurrent(t) THEN <<img, motifSource>>
    ELSE IF t.rejected THEN <<NoImage, "none">>
    ELSE <<t.result.img, t.result.source>>

\* One loadImageWithTimeout handler of task i fires with `outcome`; the chain
\* resumes and, if it returned, the effect's callback runs in the same turn.
Settle(i, outcome) ==
    /\ i \in DOMAIN tasks
    /\ tasks[i].pc # "done"
    /\ LET t2 == ChainStep(tasks[i], outcome)
           fin == t2.pc = "done"
       IN  /\ tasks' = [tasks EXCEPT ![i] =
                          [t2 EXCEPT !.applied = fin /\ StillCurrent(t2)]]
           /\ completed' = IF fin THEN Append(completed, i) ELSE completed
           /\ img' = IF fin THEN EffectCallback(t2)[1] ELSE img
           /\ motifSource' = IF fin THEN EffectCallback(t2)[2] ELSE motifSource
    /\ UNCHANGED <<mounted, motifSrc, lastExport>>
    /\ UNCHANGED paintVars
    /\ UNCHANGED <<tiling, appVars, objectUrls>>

\* img.onload
ImgOnLoad(i) == Settle(i, "success")
\* img.onerror
ImgOnError(i) == Settle(i, "error")
\* the setTimeout callback
LoadTimeout(i) == Settle(i, "timeout")

\* App.onMotifFile: a file is chosen, motifSrc becomes a fresh object URL; the
\* motif effect's cleanup runs (alive = false), then the effect runs again.
MotifSrcChanges ==
    /\ mounted
    /\ Len(tasks) <= MaxUploads
    /\ motifSrc' = motifSrc + 1
    /\ tasks' = Append([i \in DOMAIN tasks |->
                          IF i = Len(tasks) THEN [tasks[i] EXCEPT !.alive = FALSE]
                          ELSE tasks[i]],
                       NewTask(motifSrc + 1))
    \* const url = URL.createObjectURL(file); no URL is revoked
    /\ objectUrls' = [objectUrls EXCEPT !.created = @ \cup {motifSrc + 1}]
    /\ UNCHANGED <<mounted, img, motifSource, completed, lastExport>>
    /\ UNCHANGED paintVars
    /\ UNCHANGED <<tiling, appVars>>

\* PlateCanvas unmounts: the effect cleanup runs, the refs are cleared.
Unmount ==
    /\ mounted
    /\ mounted' = FALSE
    /\ tasks' = [i \in DOMAIN tasks |->
                   IF i = Len(tasks) THEN [tasks[i] EXCEPT !.alive = FALSE]
                   ELSE tasks[i]]
    /\ UNCHANGED <<motifSrc, img, motifSource, completed, lastExport>>
    /\ UNCHANGED paintVars
    /\ UNCHANGED <<tiling, appVars, objectUrls>>

(***************************************************************************)
(* Export                                                                  *)
(***************************************************************************)
\* JavaScript null and undefined, as values of `data`
JsNull == "null"
JsUndefined == "undefined"
PngDataUrl == "data:image/png;base64,..."

\* The handle's exportPNG without its try / catch.
ExportPNGUncaught(canvasPresent, hostThrows) ==
    IF ~canvasPresent THEN [value |-> JsNull, threw |-> FALSE]
    ELSE IF hostThrows THEN [value |-> JsUndefined, threw |-> TRUE]
    ELSE [value |-> PngDataUrl, threw |-> FALSE]

\* exportPNG of the imperative handle:
\*   try { return canvasRef.current?.toDataURL("image/png") ?? null }
\*   catch { return null }
\* canvasPresent: canvasRef.current is set; hostThrows: toDataURL throws
\* (SecurityError on a tainted canvas).
ExportPNG(canvasPresent, hostThrows) ==
    IF ~canvasPresent THEN [value |-> JsNull, threw |-> FALSE]
    ELSE IF hostThrows THEN [value |-> JsNull, threw |-> FALSE]
    ELSE [value |-> PngDataUrl, threw |-> FALSE]

\* if (data): null, undefined and "" are falsy
TruthyData(d) == d \notin {JsNull, JsUndefined, ""}

NoExport ==
    [caller |-> "none", canvas |-> FALSE, hostThrows |-> FALSE,
     data |-> JsUndefined, threw |-> FALSE, download |-> FALSE]

\* App.exportPNG (the Export PNG button): canvasRef.current?.exportPNG(), then
\* a download link is clicked if the data is truthy.  App's ref holds the
\* handle only while PlateCanvas is mounted.
AppExportPNG ==
    /\ mounted
    /\ \E hostThrows \in BOOLEAN :
         LET r == ExportPNG(mounted, hostThrows)
         IN  lastExport' = [caller |-> "app", canvas |-> mounted,
                            hostThrows |-> hostThrows, data |-> r.value,
                            threw |-> r.threw,
                            download |-> ~r.threw /\ TruthyData(r.value)]
    /\ UNCHANGED <<mounted, motifSrc, img, motifSource, tasks, completed>>
    /\ UNCHANGED paintVars
    /\ UNCHANGED <<tiling, appVars, objectUrls>>

\* A holder of the PlateCanvasHandle calls exportPNG directly, possibly after
\* the canvas element is gone (canvasRef.current === null).
HandleExportPNG ==
    /\ \E hostThrows \in (IF mounted THEN BOOLEAN ELSE {FALSE}) :
         LET r == ExportPNG(mounted, hostThrows)
         IN  lastExport' = [caller |-> "handle", canvas |-> mounted,
                            hostThrows |-> hostThrows, data |-> r.value,
                            threw |-> r.threw, download |-> FALSE]
    /\ UNCHANGED <<mounted, motifSrc, img, motifSource, tasks, completed>>
    /\ UNCHANGED paintVars
    /\ UNCHANGED <<tiling, appVars, objectUrls>>

(***************************************************************************)
(* Component life cycle                                                    *)
(***************************************************************************)
DEFAULT_PLATE == [widthCm |-> 250, heightCm |-> 128]
InitialContainerSize == [w |-> 800, h |-> 500]
NotPainted == [motif |-> FALSE, base |-> [done |-> FALSE]]
\* the controls have issued no operation yet
NoOps == [count |-> 0, last |-> "none", returnedSame |-> FALSE]
\* no tiling loop has been entered
NoTiling == [pc |-> "idle"]
\* no object URL created yet, none revoked
NoObjectUrls == [created |-> {}, revoked |-> {}]

\* After the first render and its effects: the motif effect has started the
\* first resolution for the persisted motifSrc (none, or a stored object URL).
Init ==
    /\ mounted = TRUE
    /\ motifSrc \in 0..1
    /\ img = NoImage
    /\ motifSource = "none"
    /\ tasks = <<NewTask(motifSrc)>>
    /\ completed = <<>>
    /\ lastExport = NoExport
    /\ plates = <<DEFAULT_PLATE>>
    /\ containerSize = InitialContainerSize
    /\ dirty = FALSE
    /\ painted = NotPainted
    /\ tiling = NoTiling
    /\ nextId = 1
    /\ ops = NoOps
    /\ objectUrls = NoObjectUrls

Next ==
    \/ \E i \in 1..(MaxUploads + 1) : ImgOnLoad(i)
    \/ \E i \in 1..(MaxUploads + 1) : ImgOnError(i)
    \/ \E i \in 1..(MaxUploads + 1) : LoadTimeout(i)
    \/ MotifSrcChanges
    \/ Unmount

\* The motif effect: resolutions, motifSrc changes and unmounting.
Spec == Init /\ [][Next]_vars

\* The same steps, with every pending load settled at the latest by its timer
\* (setTimeout in loadImageWithTimeout).
SpecUrls ==
    Init /\ [][Next]_vars
         /\ WF_vars(\E i \in 1..(MaxUploads + 1) : LoadTimeout(i))

\* The export handle during one resolution and across unmounting.
NextExport ==
    \/ \E i \in 1..(MaxUploads + 1) : ImgOnLoad(i)
    \/ \E i \in 1..(MaxUploads + 1) : ImgOnError(i)
    \/ \E i \in 1..(MaxUploads + 1) : LoadTimeout(i)
    \/ Unmount
    \/ AppExportPNG
    \/ HandleExportPNG

SpecExport == Init /\ [][NextExport]_vars

(***************************************************************************)
(* Numbers of the paint pass                                               *)
(***************************************************************************)
OUTER_PAD == 24
GAP_PX == 8
\* CARD_W_RATIO = 1.0 and CARD_H_RATIO = 0.95, in percent
CARD_W_RATIO_PCT == 100
CARD_H_RATIO_PCT == 95

Max2(a, b) == IF a >= b THEN a ELSE b
Min2(a, b) == IF a <= b THEN a ELSE b

\* A rational n / d.  d = 0 stands for the result of a division by zero
\* (Infinity or NaN in the program).
Rat(n, d) == [n |-> n, d |-> d]
RatOfInt(k) == Rat(k, 1)
RatLt(a, b) == a.n * b.d < b.n * a.d
RatLe(a, b) == a.n * b.d <= b.n * a.d
RatEq(a, b) == a.n * b.d = b.n * a.d
\* Math.min / Math.max of two numbers
RatMin(a, b) == IF RatLt(b, a) THEN b ELSE a
RatMax(a, b) == IF RatLt(a, b) THEN b ELSE a
RatMulInt(a, k) == Rat(a.n * k, a.d)
RatAddInt(a, k) == Rat(a.n + k * a.d, a.d)
\* k - a
IntMinusRat(k, a) == Rat(k * a.d - a.n, a.d)
RatHalf(a) == Rat(a.n, 2 * a.d)
\* a + b and a - b for two rationals over the same denominator
RatAddSame(a, b) == Rat(a.n + b.n, a.d)
RatSubSame(a, b) == Rat(a.n - b.n, a.d)
\* Math.floor, and Math.round (half up)
RatFloor(a) == a.n \div a.d
RatRound(a) == (2 * a.n + a.d) \div (2 * a.d)

\* Math.max(0.1, ...): the minimum scale
MIN_SCALE == Rat(1, 10)

(***************************************************************************)
(* metrics (useMemo)                                                       *)
(***************************************************************************)
RECURSIVE SumWidths(_)
\* plates.reduce((s, p) => s + p.widthCm, 0)
SumWidths(ps) ==
    IF ps = <<>> THEN 0 ELSE SumWidths(SubSeq(ps, 1, Len(ps) - 1)) + ps[Len(ps)].widthCm

\* A number or -Infinity
NegInfinity == [negInf |-> TRUE, v |-> 0]
Finite(v) == [negInf |-> FALSE, v |-> v]

RECURSIVE MaxHeights(_)
\* Math.max(...plates.map((p) => p.heightCm)): -Infinity without arguments
MaxHeights(ps) ==
    IF ps = <<>> THEN NegInfinity
    ELSE LET rest == MaxHeights(SubSeq(ps, 1, Len(ps) - 1))
             hh == ps[Len(ps)].heightCm
         IN  IF rest.negInf THEN Finite(hh) ELSE Finite(Max2(rest.v, hh))

metrics(ps) == [totalWcm |-> SumWidths(ps), maxHcm |-> MaxHeights(ps)]

\* Math.max(1, metrics.totalWcm) without the clamp
ClampTotalWcmDropped(x) == x
\* Math.max(1, metrics.totalWcm)
ClampTotalWcm(x) == Max2(1, x)
\* Math.max(1, metrics.maxHcm)
ClampMaxHcm(x) == IF x.negInf THEN 1 ELSE Max2(1, x.v)

(***************************************************************************)
(* Scale                                                                   *)
(***************************************************************************)
\* (usableW - gapsPx) / totalWcm with the gaps left out
ScaleByWIgnoringGaps(usableW, gapsPx, totalWcm) == Rat(usableW, totalWcm)
ScaleByW(usableW, gapsPx, totalWcm) == Rat(usableW - gapsPx, totalWcm)
ScaleByH(usableH, maxHcm) == Rat(usableH, maxHcm)

\* the scale bound by the width alone
ScaleOfWidthOnly(scaleByW, scaleByH) == RatMax(MIN_SCALE, scaleByW)
\* Math.max(0.1, Math.min(scaleByW, scaleByH))
ScaleOf(scaleByW, scaleByH) == RatMax(MIN_SCALE, RatMin(scaleByW, scaleByH))

(***************************************************************************)
(* Center-first tiling with mirroring                                      *)
(***************************************************************************)
\* every extension tile mirrored
MirrorAlways(i) == TRUE
\* const mirror = i % 2 === 1
MirrorOf(i) == i % 2 = 1

\* the loop condition with && in place of ||
LoopContinuesBoth(L, R, offWidth) == L > 0 /\ R < offWidth
\* while (L > 0 || R < off.width)
LoopContinues(L, R, offWidth) == L > 0 \/ R < offWidth

\* One iteration of the loop body on the locals L, R, i and the tiles drawn.
TileStep(L, R, i, offWidth, tileW, drawn) ==
    LET mirror == MirrorOf(i)
        leftX == L - tileW
        rightX == R
        d1 == IF leftX + tileW > 0
              THEN Append(drawn, [x |-> leftX, mirror |-> mirror])
              ELSE drawn
        d2 == IF rightX < offWidth
              THEN Append(d1, [x |-> rightX, mirror |-> mirror])
              ELSE d1
    IN  [L |-> L - tileW, R |-> R + tileW, i |-> i + 1, drawn |-> d2]

RECURSIVE TileLoop(_, _, _, _, _, _)
\* while (L > 0 || R < off.width) { ... }: the tiles drawn, in drawing order
TileLoop(L, R, i, offWidth, tileW, drawn) ==
    IF ~LoopContinues(L, R, offWidth) THEN drawn
    ELSE LET st == TileStep(L, R, i, offWidth, tileW, drawn)
         IN  TileLoop(st.L, st.R, st.i, offWidth, tileW, st.drawn)

\* drawTile(o, img, centerX, 0, tileW, tileH, false), then the loop
Tiling(centerX, offWidth, tileW) ==
    TileLoop(centerX, centerX + tileW, 1, offWidth, tileW,
             <<[x |-> centerX, mirror |-> FALSE]>>)

(***************************************************************************)
(* Plates                                                                  *)
(***************************************************************************)
\* sx with the gaps added, as dx has them
SourceXWithGaps(acc, idx) == RatFloor(RatAddInt(acc, GAP_PX * idx))
\* const sx = Math.floor(acc)
SourceX(acc, idx) == RatFloor(acc)

\* dx without the gap
DestXNoGap(startX, acc, idx) == RatFloor(RatAddInt(acc, startX))
\* const dx = Math.floor(startX + acc + GAP_PX * idx)
DestX(startX, acc, idx) == RatFloor(RatAddInt(acc, startX + GAP_PX * idx))

\* One iteration of plates.forEach for plate p at 0-based index idx.
PlateRect(p, idx, acc, scale, startX, startY, innerH, offHeight) ==
    LET w == RatMax(RatMulInt(scale, 0), RatMulInt(scale, p.widthCm))
        h == RatMax(RatMulInt(scale, 0), RatMulInt(scale, p.heightCm))
        baselineY == RatAddInt(innerH, startY)
    IN  [w  |-> w,
         h  |-> h,
         sx |-> SourceX(acc, idx),
         sy |-> Max2(0, RatFloor(IntMinusRat(offHeight, h))),
         dx |-> DestX(startX, acc, idx),
         dy |-> RatFloor(RatSubSame(baselineY, h))]

RECURSIVE PlateRects(_, _, _, _, _, _, _, _)
\* plates.forEach((p, idx) => { ...; acc += p.widthCm * scale }) from index k
PlateRects(ps, k, acc, scale, startX, startY, innerH, offHeight) ==
    IF k > Len(ps) THEN <<>>
    ELSE <<PlateRect(ps[k], k - 1, acc, scale, startX, startY, innerH, offHeight)>>
         \o PlateRects(ps, k + 1,
                       RatAddSame(acc, RatMulInt(scale, ps[k].widthCm)),
                       scale, startX, startY, innerH, offHeight)

(***************************************************************************)
(* The paint effect                                                        *)
(***************************************************************************)
PaintPass(ps, image, size) ==
    LET cssW == Max2(200, size.w)
        cssH == Max2(220, size.h)
        cardW == (cssW * CARD_W_RATIO_PCT) \div 100
        cardH == (cssH * CARD_H_RATIO_PCT) \div 100
        x0 == (cssW - cardW) \div 2
        y0 == (cssH - cardH) \div 2
        ix == x0 + OUTER_PAD
        iy == y0 + OUTER_PAD
        usableW == cardW - OUTER_PAD * 2
        usableH == cardH - OUTER_PAD * 2
        totalWcm == ClampTotalWcm(metrics(ps).totalWcm)
        maxHcm == ClampMaxHcm(metrics(ps).maxHcm)
        gapsPx == GAP_PX * Max2(0, Len(ps) - 1)
        scaleByW == ScaleByW(usableW, gapsPx, totalWcm)
        scaleByH == ScaleByH(usableH, maxHcm)
        scale == ScaleOf(scaleByW, scaleByH)
        innerW == RatAddInt(RatMulInt(scale, totalWcm), gapsPx)
        innerH == RatMulInt(scale, maxHcm)
        \* Math.floor(ix + (usableW - innerW) / 2)
        startX == RatFloor(RatAddInt(RatHalf(IntMinusRat(usableW, innerW)), ix))
        startY == RatFloor(RatAddInt(RatHalf(IntMinusRat(usableH, innerH)), iy))
        offWidth == Max2(1, RatRound(RatMulInt(scale, totalWcm)))
        offHeight == Max2(1, RatRound(innerH))
        tileH == offHeight
        tileW == Max2(1, RatRound(Rat(image.naturalWidth * tileH, image.naturalHeight)))
        \* Math.floor(off.width / 2 - tileW / 2)
        centerX == (offWidth - tileW) \div 2
        base == [done |-> TRUE, n |-> Len(ps),
                 cssW |-> cssW, cssH |-> cssH, cardW |-> cardW, cardH |-> cardH,
                 x0 |-> x0, y0 |-> y0, usableW |-> usableW, usableH |-> usableH,
                 totalWcm |-> totalWcm, maxHcm |-> maxHcm, gapsPx |-> gapsPx,
                 scaleByW |-> scaleByW, scaleByH |-> scaleByH, scale |-> scale,
                 innerW |-> innerW, innerH |-> innerH,
                 startX |-> startX, startY |-> startY]
    IN  IF image # NoImage
        THEN [motif |-> TRUE, base |-> base,
              off |-> [width |-> offWidth, height |-> offHeight],
              tileW |-> tileW, centerX |-> centerX,
              tiles |-> Tiling(centerX, offWidth, tileW),
              rects |-> PlateRects(ps, 1, Rat(0, scale.d), scale, startX, startY,
                                   innerH, offHeight)]
        ELSE \* placeholder: ctx.fillRect(startX, startY, innerW, innerH)
             [motif |-> FALSE, base |-> base,
              off |-> [width |-> 0, height |-> 0],
              tileW |-> 0, centerX |-> 0, tiles |-> <<>>, rects |-> <<>>]

\* The paint effect runs (a dependency changed since the last pass).
PaintEffect ==
    /\ mounted
    /\ dirty
    /\ painted' = PaintPass(plates, img, containerSize)
    /\ dirty' = FALSE
    /\ UNCHANGED <<plates, containerSize, img>>
    /\ UNCHANGED componentVars
    /\ UNCHANGED <<tiling, appVars, objectUrls>>

\* The surface sizes the ResizeObserver reports.
SurfaceSizes ==
    {[w |-> 100, h |-> 100], [w |-> 800, h |-> 500],
     [w |-> 1200, h |-> 300], [w |-> 420, h |-> 900]}

\* ResizeObserver callback: setContainerSize({ w, h })
Resize ==
    /\ mounted
    /\ \E s \in SurfaceSizes : containerSize' = s
    /\ dirty' = TRUE
    /\ UNCHANGED <<plates, painted, img>>
    /\ UNCHANGED componentVars
    /\ UNCHANGED <<tiling, appVars, objectUrls>>

\* Plate dimensions inside the limits 20..300 x 30..128
PlateKinds ==
    {[widthCm |-> 20, heightCm |-> 30], [widthCm |-> 150, heightCm |-> 80],
     [widthCm |-> 300, heightCm |-> 128]}
ZeroPlate == [widthCm |-> 0, heightCm |-> 0]

\* The plate sequences handed to the canvas: up to MaxPlates plates inside the
\* limits, the empty sequence (persisted state without plates, before App
\* restores the default plate) and persisted plates of zero size.
PlateSeqs ==
    UNION {[1..k -> PlateKinds] : k \in 0..MaxPlates}
      \cup {<<ZeroPlate>>, <<ZeroPlate, ZeroPlate>>}

PaintImages == {NoImage, ImageOf(DEFAULT_MOTIF), ImageOf(LocatorOf(1))}

TierOfImage(image) ==
    IF image = NoImage THEN "none"
    ELSE IF image.src = DEFAULT_MOTIF THEN "remote" ELSE "user"

\* The canvas after the first render, before its paint effect ran, for every
\* plate sequence and resolved image.
InitPaint ==
    /\ mounted = TRUE
    /\ motifSrc = 0
    /\ img \in PaintImages
    /\ motifSource = TierOfImage(img)
    /\ tasks = <<>>
    /\ completed = <<>>
    /\ lastExport = NoExport
    /\ plates \in PlateSeqs
    /\ containerSize = InitialContainerSize
    /\ dirty = TRUE
    /\ painted = NotPainted
    /\ tiling = NoTiling
    /\ nextId = 1
    /\ ops = NoOps
    /\ objectUrls = NoObjectUrls

NextPaint ==
    \/ PaintEffect
    \/ Resize

SpecPaint == InitPaint /\ [][NextPaint]_vars

(***************************************************************************)
(* The tiling loop, one iteration at a time                                *)
(***************************************************************************)
\* widest strip and widest tile the loop is run on
MaxStripWidth == 12
MaxTileWidth == 5

\* const centerX = Math.floor(off.width / 2 - tileW / 2)
CenterX(offWidth, tileW) == (offWidth - tileW) \div 2

\* drawTile(o, img, centerX, ...); let L = centerX, R = centerX + tileW, i = 1
TileCenter ==
    /\ tiling.pc = "start"
    /\ LET centerX == CenterX(tiling.offWidth, tiling.tileW)
       IN  tiling' = [tiling EXCEPT !.pc = "loop",
                                    !.centerX = centerX,
                                    !.L = centerX,
                                    !.R = centerX + tiling.tileW,
                                    !.i = 1,
                                    !.drawn = <<[x |-> centerX, mirror |-> FALSE]>>]
    /\ UNCHANGED <<img, appVars, objectUrls>>
    /\ UNCHANGED componentVars
    /\ UNCHANGED paintVars

\* the loop condition holds: one pass through the loop body
TileIteration ==
    /\ tiling.pc = "loop"
    /\ LoopContinues(tiling.L, tiling.R, tiling.offWidth)
    /\ LET st == TileStep(tiling.L, tiling.R, tiling.i, tiling.offWidth,
                          tiling.tileW, tiling.drawn)
       IN  tiling' = [tiling EXCEPT !.L = st.L, !.R = st.R, !.i = st.i,
                                    !.drawn = st.drawn]
    /\ UNCHANGED <<img, appVars, objectUrls>>
    /\ UNCHANGED componentVars
    /\ UNCHANGED paintVars

\* the loop condition fails: the loop is left
TileLoopExit ==
    /\ tiling.pc = "loop"
    /\ ~LoopContinues(tiling.L, tiling.R, tiling.offWidth)
    /\ tiling' = [tiling EXCEPT !.pc = "done"]
    /\ UNCHANGED <<img, appVars, objectUrls>>
    /\ UNCHANGED componentVars
    /\ UNCHANGED paintVars

\* The paint pass about to tile a strip of any width with a tile of any width.
InitTiling ==
    /\ mounted = TRUE
    /\ motifSrc = 0
    /\ img = ImageOf(DEFAULT_MOTIF)
    /\ motifSource = "remote"
    /\ tasks = <<>>
    /\ completed = <<>>
    /\ lastExport = NoExport
    /\ plates = <<DEFAULT_PLATE>>
    /\ containerSize = InitialContainerSize
    /\ dirty = TRUE
    /\ painted = NotPainted
    /\ \E ow \in 1..MaxStripWidth, tw \in 1..MaxTileWidth :
         tiling = [pc |-> "start", offWidth |-> ow, tileW |-> tw,
                   centerX |-> 0, L |-> 0, R |-> 0, i |-> 0, drawn |-> <<>>]
    /\ nextId = 1
    /\ ops = NoOps
    /\ objectUrls = NoObjectUrls

NextTiling ==
    \/ TileCenter
    \/ TileIteration
    \/ TileLoopExit

\* The paint effect is synchronous: a started loop keeps running.
SpecTiling == InitTiling /\ [][NextTiling]_vars /\ WF_vars(NextTiling)

(***************************************************************************)
(* The plate list of App: the state updaters of setPlate, addPlate,         *)
(* removePlate and reorderPlates, the two repairing effects, and the        *)
(* operations as PlateControls issues them                                  *)
(***************************************************************************)

\* most operations the controls issue in one behaviour
MaxOps == 2

\* if (s.plates.length >= 10) return s;
PlateLimit == 10

\* const clamp = (n, lo, hi) => Math.min(hi, Math.max(lo, n))
clamp(n, lo, hi) == Min2(hi, Max2(lo, n))

\* DEFAULT_PLATE of App, with its module-level id (written 0)
AppDefaultPlate ==
    [id |-> 0, widthCm |-> DEFAULT_PLATE.widthCm, heightCm |-> DEFAULT_PLATE.heightCm]

\* { ...p, ...data }
Merge(p, data) ==
    [f \in DOMAIN p |-> IF f \in DOMAIN data THEN data[f] ELSE p[f]]

\* s.plates.map((p) => (p.id === id ? { ...p, ...data } : p))
setPlate(ps, id, data) ==
    [k \in 1..Len(ps) |-> IF ps[k].id = id THEN Merge(ps[k], data) ELSE ps[k]]

\* addPlate without the early return at ten plates.
addPlateUnbounded(ps, id) ==
    LET last == IF Len(ps) > 0 THEN ps[Len(ps)] ELSE AppDefaultPlate
    IN  Append(ps, [id |-> id,
                    widthCm |-> clamp(last.widthCm, 20, 300),
                    heightCm |-> clamp(last.heightCm, 30, 128)])

\* The updater of addPlate() called without `initial`; id is the value of
\* crypto.randomUUID().
addPlate(ps, id) ==
    IF Len(ps) >= PlateLimit
    THEN ps
    ELSE LET last == IF Len(ps) > 0 THEN ps[Len(ps)] ELSE AppDefaultPlate
         IN  Append(ps, [id |-> id,
                         widthCm |-> clamp(last.widthCm, 20, 300),
                         heightCm |-> clamp(last.heightCm, 30, 128)])

\* The updater of removePlate(id)
removePlate(ps, id) ==
    IF Len(ps) <= 1
    THEN ps
    ELSE SelectSeq(ps, LAMBDA p : p.id # id)

\* The updater of reorderPlates(from, to), 0-based indices:
\* const [moved] = arr.splice(from, 1); arr.splice(to, 0, moved)
reorderPlates(ps, from, to) ==
    LET moved == ps[from + 1]
        arr   == SubSeq(ps, 1, from) \o SubSeq(ps, from + 2, Len(ps))
        at    == Min2(to, Len(arr))
    IN  SubSeq(arr, 1, at) \o <<moved>> \o SubSeq(arr, at + 1, Len(arr))

\* The ids of a plate list are pairwise different.
UniqueIds(ps) ==
    Cardinality({ps[k].id : k \in 1..Len(ps)}) = Len(ps)

\* state.plates.map(...) of the id repair: a plate whose id was seen before
\* gets the next fresh id.
RECURSIVE Repaired(_, _, _, _)
Repaired(ps, k, seen, fresh) ==
    IF k > Len(ps)
    THEN <<>>
    ELSE IF ps[k].id \in seen
         THEN <<[ps[k] EXCEPT !.id = fresh]>>
                \o Repaired(ps, k + 1, seen \cup {fresh}, fresh + 1)
         ELSE <<ps[k]>> \o Repaired(ps, k + 1, seen \cup {ps[k].id}, fresh)

\* Both effects of App have run: the controls handle an event only after the
\* effects of the last render were flushed.
EffectsFlushed == Len(plates) > 0 /\ UniqueIds(plates)

\* useEffect "Ensure a default plate always exists"
EnsureDefaultPlate ==
    /\ Len(plates) = 0
    /\ plates' = <<AppDefaultPlate>>
    /\ UNCHANGED <<containerSize, dirty, painted>>
    /\ UNCHANGED <<img, tiling, appVars, objectUrls>>
    /\ UNCHANGED componentVars

\* useEffect "Fix missing or duplicate IDs"
FixIds ==
    /\ ~UniqueIds(plates)
    /\ plates' = Repaired(plates, 1, {}, nextId)
    /\ nextId' = nextId + Cardinality({k \in 1..Len(plates) : plates'[k].id # plates[k].id})
    /\ UNCHANGED <<containerSize, dirty, painted>>
    /\ UNCHANGED <<img, tiling, ops, objectUrls>>
    /\ UNCHANGED componentVars

\* The values a NumberField commits: one field, within its limits.
PlateData == {[widthCm |-> 20], [heightCm |-> 30]}

\* NumberField onCommit: setPlate(p.id, { widthCm: n }) or { heightCm: n }
SetPlate(k, data) ==
    /\ ops.count < MaxOps
    /\ k \in 1..Len(plates)
    /\ EffectsFlushed
    /\ plates' = setPlate(plates, plates[k].id, data)
    /\ ops' = [count |-> ops.count + 1, last |-> "setPlate", returnedSame |-> FALSE]
    /\ UNCHANGED <<containerSize, dirty, painted>>
    /\ UNCHANGED <<img, tiling, nextId, objectUrls>>
    /\ UNCHANGED componentVars

\* The add button: onClick={() => addPlate()}
AddPlate ==
    /\ ops.count < MaxOps
    /\ EffectsFlushed
    /\ plates' = addPlate(plates, nextId)
    /\ nextId' = IF Len(plates) >= PlateLimit THEN nextId ELSE nextId + 1
    /\ ops' = [count |-> ops.count + 1, last |-> "addPlate",
               returnedSame |-> (Len(plates) >= PlateLimit)]
    /\ UNCHANGED <<containerSize, dirty, painted>>
    /\ UNCHANGED <<img, tiling, objectUrls>>
    /\ UNCHANGED componentVars

\* The remove button of card k: onClick={() => removePlate(p.id)}.  The
\* button is disabled when one plate is left; the updater is guarded as well,
\* so the call is modelled at every length.
RemovePlate(k) ==
    /\ ops.count < MaxOps
    /\ k \in 1..Len(plates)
    /\ EffectsFlushed
    /\ plates' = removePlate(plates, plates[k].id)
    /\ ops' = [count |-> ops.count + 1, last |-> "removePlate",
               returnedSame |-> (Len(plates) <= 1)]
    /\ UNCHANGED <<containerSize, dirty, painted>>
    /\ UNCHANGED <<img, tiling, nextId, objectUrls>>
    /\ UNCHANGED componentVars

\* onDrop(i) after onDragStart(dragIndex): reorderPlates(dragIndex, i) only
\* if dragIndex !== null && dragIndex !== i; both are indices of rendered cards.
ReorderPlates(from, to) ==
    /\ ops.count < MaxOps
    /\ from \in 0..(Len(plates) - 1)
    /\ to \in 0..(Len(plates) - 1)
    /\ from # to
    /\ EffectsFlushed
    /\ plates' = reorderPlates(plates, from, to)
    /\ ops' = [count |-> ops.count + 1, last |-> "reorderPlates", returnedSame |-> FALSE]
    /\ UNCHANGED <<containerSize, dirty, painted>>
    /\ UNCHANGED <<img, tiling, nextId, objectUrls>>
    /\ UNCHANGED componentVars

\* App after its first render: a persisted list of 0 to 10 plates, possibly
\* with a duplicated id.
InitApp ==
    /\ mounted = TRUE
    /\ motifSrc = 0
    /\ img = NoImage
    /\ motifSource = "none"
    /\ tasks = <<>>
    /\ completed = <<>>
    /\ lastExport = NoExport
    /\ \E n \in 0..PlateLimit, dup \in BOOLEAN :
         /\ plates = [k \in 1..n |->
                        [id |-> IF dup /\ k = 2 THEN 1 ELSE k,
                         widthCm |-> DEFAULT_PLATE.widthCm,
                         heightCm |-> DEFAULT_PLATE.heightCm]]
         /\ nextId = n + 1
    /\ containerSize = InitialContainerSize
    /\ dirty = FALSE
    /\ painted = NotPainted
    /\ tiling = NoTiling
    /\ ops = NoOps
    /\ objectUrls = NoObjectUrls

NextApp ==
    \/ EnsureDefaultPlate
    \/ FixIds
    \/ \E k \in 1..PlateLimit, data \in PlateData : SetPlate(k, data)
    \/ AddPlate
    \/ \E k \in 1..PlateLimit : RemovePlate(k)
    \/ \E from \in 0..(PlateLimit - 1), to \in 0..(PlateLimit - 1) : ReorderPlates(from, to)

\* The plate list under the operations of the controls.
SpecApp == InitApp /\ [][NextApp]_vars

(***************************************************************************)
(* Claims about the resolver and the motif effect (checked under Spec) and  *)
(* about the export (checked under SpecExport)                             *)
(***************************************************************************)
Failed(o) == o \in {"error", "timeout"}

\* The tier the priority order user > remote > local picks from how the
\* attempted loads settled.
ExpectedTier(t) ==
    IF Truthy(t.userSrc) /\ t.outcomes.user = "success" THEN "user"
    ELSE IF t.outcomes.remote = "success" THEN "remote"
    ELSE IF t.outcomes.local = "success" THEN "local"
    ELSE "none"

\* C1: for every combination of load outcomes and every user locator, a
\* finished loadMotifChainDetailed call resolved (never rejected) with the
\* highest-priority source that loaded, tagged with its tier: every tier above
\* it was tried and failed (the user tier only if a locator was given), the
\* image is the one loaded from that tier's locator, and with all three
\* failed the result is {img: null, source: 'none'}.
C1_ChainReturnsHighestPriority ==
    \A i \in DOMAIN tasks :
      LET t == tasks[i]
          o == t.outcomes
      IN  /\ ~t.rejected
          /\ (~Truthy(t.userSrc) => o.user = "untried")
          /\ t.pc = "done" =>
               /\ t.result.source = ExpectedTier(t)
               /\ t.result.source = "user" =>
                    t.result.img = ImageOf(LocatorOf(t.userSrc))
               /\ t.result.source = "remote" =>
                    /\ t.result.img = ImageOf(DEFAULT_MOTIF)
                    /\ Truthy(t.userSrc) => Failed(o.user)
               /\ t.result.source = "local" =>
                    /\ t.result.img = ImageOf(fallbackMotif)
                    /\ Failed(o.remote)
                    /\ Truthy(t.userSrc) => Failed(o.user)
               /\ t.result.source = "none" =>
                    /\ t.result.img = NoImage
                    /\ Failed(o.local) /\ Failed(o.remote)
                    /\ Truthy(t.userSrc) => Failed(o.user)

\* C1 witness: a call with a user locator whose user load timed out, whose
\* remote load errored and whose local load succeeded returned tier 'local'.
C1_Witness ==
    \E i \in DOMAIN tasks :
      /\ tasks[i].pc = "done"
      /\ Truthy(tasks[i].userSrc)
      /\ tasks[i].outcomes.user = "timeout"
      /\ tasks[i].outcomes.remote = "error"
      /\ tasks[i].result.source = "local"

\* C2: once a newer resolution has started, an older one that completes
\* leaves img and motifSource untouched, and every write to them is the
\* outcome of the resolution started last.
C2_OnlyLatestResolutionApplied ==
    [][ /\ \A i \in DOMAIN tasks :
             (i < Len(tasks) /\ tasks[i].pc # "done" /\ tasks'[i].pc = "done")
               => /\ img' = img
                  /\ motifSource' = motifSource
                  /\ ~tasks'[i].applied
        /\ (img' # img \/ motifSource' # motifSource)
             => LET last == tasks'[Len(tasks')]
                IN  /\ last.pc = "done"
                    /\ img' = last.result.img
                    /\ motifSource' = last.result.source
      ]_vars

\* C2 witness: the second resolution completed first, the first one completed
\* after it with a different outcome, and the state shows the second's.
C2_Witness ==
    /\ Len(tasks) >= 2
    /\ Len(completed) >= 2
    /\ completed[1] = 2 /\ completed[2] = 1
    /\ tasks[1].result.source # tasks[2].result.source
    /\ tasks[1].result.source # "none"
    /\ motifSource = tasks[2].result.source
    /\ img = tasks[2].result.img

\* C10: an exportPNG call never throws; it returns null when the canvas is
\* not mounted or toDataURL throws, the PNG data otherwise; and App starts
\* a download exactly when the data it got is non-null.
C10_ExportNeverThrows ==
    lastExport.caller # "none" =>
      /\ ~lastExport.threw
      /\ (~lastExport.canvas \/ lastExport.hostThrows) => lastExport.data = JsNull
      /\ (lastExport.canvas /\ ~lastExport.hostThrows) => lastExport.data = PngDataUrl
      /\ lastExport.download => lastExport.data # JsNull
      /\ lastExport.caller = "app" =>
           (lastExport.download <=> lastExport.data # JsNull)

\* C10 witness: App asked for an export, toDataURL threw, the handle returned
\* null and no download started.
C10_Witness ==
    /\ lastExport.caller = "app"
    /\ lastExport.hostThrows
    /\ lastExport.data = JsNull
    /\ ~lastExport.download

(***************************************************************************)
(* Claims about the paint pass (checked under SpecPaint)                   *)
(***************************************************************************)
Abs(x) == IF x < 0 THEN -x ELSE x

\* innerW = totalWcm * scale + GAP_PX * (n - 1) <= usableW
FitsWidth(b) ==
    RatLe(RatAddInt(RatMulInt(b.scale, b.totalWcm), GAP_PX * Max2(0, b.n - 1)),
          RatOfInt(b.usableW))
\* maxHcm * scale <= usableH
FitsHeight(b) == RatLe(RatMulInt(b.scale, b.maxHcm), RatOfInt(b.usableH))

\* the tighter of the two axis bounds
TighterBound(b) == RatMin(b.scaleByW, b.scaleByH)

\* C3 as stated: in every paint pass the plates with their gaps fit the usable
\* width and the tallest plate fits the usable height.
C3_AlwaysFits ==
    painted.base.done => FitsWidth(painted.base) /\ FitsHeight(painted.base)

\* C3 amended: in every paint pass in which the tighter axis bound is at least
\* the minimum scale 0.1, the plates with their gaps fit the usable width and
\* the tallest plate fits the usable height.
C3_FitsUnlessFloored ==
    (painted.base.done /\ RatLe(MIN_SCALE, TighterBound(painted.base)))
      => FitsWidth(painted.base) /\ FitsHeight(painted.base)

\* C3 witness: a width-bound pass of several plates above the minimum scale,
\* filling the usable width.
C3_Witness ==
    /\ painted.base.done
    /\ painted.base.n >= 2
    /\ RatLt(MIN_SCALE, painted.base.scale)
    /\ RatLt(painted.base.scaleByW, painted.base.scaleByH)
    /\ RatEq(painted.base.innerW, RatOfInt(painted.base.usableW))

\* 1 to 10 plates inside the limits 20..300 x 30..128
InLimits(ps) ==
    /\ Len(ps) \in 1..10
    /\ \A i \in DOMAIN ps :
         ps[i].widthCm \in 20..300 /\ ps[i].heightCm \in 30..128

\* C4: for plates inside the limits the painted rectangles have strictly
\* increasing x-offsets in input order and consecutive ones do not overlap:
\* dx[i] < dx[i+1] and dx[i] + w[i] <= dx[i+1].
C4_IncreasingNoOverlap ==
    (painted.base.done /\ painted.motif /\ InLimits(plates)) =>
      \A i \in 1..(Len(painted.rects) - 1) :
        LET a == painted.rects[i]
            b == painted.rects[i + 1]
        IN  /\ a.dx < b.dx
            /\ RatLe(RatAddInt(a.w, a.dx), RatOfInt(b.dx))

\* C4 witness: three or more plates inside the limits painted at the minimum
\* scale, where the rectangles are narrowest.
C4_Witness ==
    /\ painted.base.done /\ painted.motif /\ InLimits(plates)
    /\ Len(painted.rects) >= 3
    /\ RatEq(painted.base.scale, MIN_SCALE)
    /\ painted.rects[1].dx < painted.rects[2].dx

\* dy + h of a plate rectangle, over the denominator of h
BottomEdge(r) == RatAddInt(r.h, r.dy)

\* C5: in one paint pass all plates share one bottom edge: dy + h is equal for
\* every pair of plates.
C5_SharedBottomEdge ==
    (painted.base.done /\ painted.motif) =>
      \A i, j \in DOMAIN painted.rects :
        RatEq(BottomEdge(painted.rects[i]), BottomEdge(painted.rects[j]))

\* C6 as stated: the scale equals scaleByW when scaleByW < scaleByH and
\* scaleByH when scaleByH < scaleByW.
C6_ScaleIsTighterBound ==
    painted.base.done =>
      LET b == painted.base
      IN  /\ RatLt(b.scaleByW, b.scaleByH) => RatEq(b.scale, b.scaleByW)
          /\ RatLt(b.scaleByH, b.scaleByW) => RatEq(b.scale, b.scaleByH)

\* C6 amended: the scale equals the tighter of scaleByW and scaleByH whenever
\* that bound is at least the minimum scale 0.1, and is 0.1 when the tighter
\* bound is below it.
C6_ScaleIsTighterBoundOrFloor ==
    painted.base.done =>
      LET b == painted.base
      IN  /\ RatLe(MIN_SCALE, TighterBound(b)) =>
               /\ RatLt(b.scaleByW, b.scaleByH) => RatEq(b.scale, b.scaleByW)
               /\ RatLt(b.scaleByH, b.scaleByW) => RatEq(b.scale, b.scaleByH)
          /\ RatLt(TighterBound(b), MIN_SCALE) => RatEq(b.scale, MIN_SCALE)

\* C6 witness: a height-bound pass (scaleByH < scaleByW) above the minimum.
C6_Witness ==
    /\ painted.base.done
    /\ RatLt(painted.base.scaleByH, painted.base.scaleByW)
    /\ RatLt(MIN_SCALE, painted.base.scaleByH)
    /\ RatEq(painted.base.scale, painted.base.scaleByH)

\* an empty plate sequence, or plates whose widths and heights are all zero
Degenerate(ps) ==
    \A i \in DOMAIN ps : ps[i].widthCm = 0 /\ ps[i].heightCm = 0

\* C7 as stated: for degenerate input no division by zero, no negative or
\* undefined scale, and the scale is the minimum scale 0.1.
C7_DegenerateUsesFloor ==
    (painted.base.done /\ Degenerate(plates)) =>
      /\ painted.base.scale.d > 0
      /\ painted.base.scale.n > 0
      /\ RatEq(painted.base.scale, MIN_SCALE)

\* C7 amended: for degenerate input both divisors are clamped to 1, so no
\* division by zero happens and the scale is defined and positive: it is
\* max(0.1, min(usableW - gapsPx, usableH)), at least the minimum scale.
C7_DegenerateScaleDefined ==
    (painted.base.done /\ Degenerate(plates)) =>
      LET b == painted.base
      IN  /\ b.totalWcm = 1 /\ b.maxHcm = 1
          /\ b.scaleByW.d > 0 /\ b.scaleByH.d > 0
          /\ b.scale.d > 0 /\ b.scale.n > 0
          /\ RatLe(MIN_SCALE, b.scale)
          /\ RatEq(b.scale,
                   RatMax(MIN_SCALE, RatOfInt(Min2(b.usableW - b.gapsPx, b.usableH))))

\* C7 witness: a pass over the empty plate sequence and a loaded image.
C7_Witness ==
    /\ painted.base.done /\ painted.motif
    /\ plates = <<>>
    /\ painted.base.scale.n > painted.base.scale.d

\* C8: the tile at the horizontal center is unflipped and a tile k tile
\* widths away from it, on either side, is mirrored exactly when k is odd.
C8_MirrorByParity ==
    (painted.base.done /\ painted.motif) =>
      /\ painted.tiles[1] = [x |-> painted.centerX, mirror |-> FALSE]
      /\ \A k \in DOMAIN painted.tiles :
           LET t == painted.tiles[k]
               dist == Abs(t.x - painted.centerX)
           IN  /\ dist % painted.tileW = 0
               /\ t.mirror <=> ((dist \div painted.tileW) % 2 = 1)

\* C8 witness: a strip with the center tile, both neighbours mirrored and
\* both tiles two positions away unflipped.
C8_Witness ==
    /\ painted.base.done /\ painted.motif
    /\ \A k \in {-2, -1, 1, 2} :
         \E j \in DOMAIN painted.tiles :
           /\ painted.tiles[j].x = painted.centerX + k * painted.tileW
           /\ painted.tiles[j].mirror = (Abs(k) = 1)

\* sum of the scaled widths of the plates before plate i
WidthsBefore(i) ==
    RatMulInt(painted.base.scale, SumWidths(SubSeq(plates, 1, i - 1)))

\* C9 as stated: each plate's sx is the running sum of the preceding plates'
\* scaled widths plus the accumulated gaps, the plate's distance from the
\* first plate on the surface.
C9_SourceOffsetWithGaps ==
    (painted.base.done /\ painted.motif) =>
      \A i \in DOMAIN painted.rects :
        painted.rects[i].sx = RatFloor(RatAddInt(WidthsBefore(i), GAP_PX * (i - 1)))

\* C9 amended: each plate's sx is the floor of the running sum of the
\* preceding plates' scaled widths, without the gaps.
C9_SourceOffsetWithoutGaps ==
    (painted.base.done /\ painted.motif) =>
      \A i \in DOMAIN painted.rects :
        painted.rects[i].sx = RatFloor(WidthsBefore(i))

\* C9 witness: a third plate whose strip offset is short of its distance from
\* the first plate on the surface by the two gaps before it.
C9_Witness ==
    /\ painted.base.done /\ painted.motif
    /\ Len(painted.rects) >= 3
    /\ painted.rects[3].sx > 0
    /\ painted.rects[3].dx - painted.rects[1].dx >= painted.rects[3].sx + 2 * GAP_PX

\* some drawn tile is mirrored
DrawsMirroredTile == \E k \in DOMAIN painted.tiles : painted.tiles[k].mirror

\* C13: a paint pass with a motif draws at least one mirrored tile exactly
\* when the sum of the plates' widthCm is greater than 300; at 300 or less it
\* draws only the single unflipped tile.
C13_MirrorsAbove300cm ==
    (painted.base.done /\ painted.motif) =>
      /\ DrawsMirroredTile <=> SumWidths(plates) > 300
      /\ SumWidths(plates) <= 300 =>
           painted.tiles = <<[x |-> painted.centerX, mirror |-> FALSE]>>

\* every pixel column of the strip lies inside a drawn tile
StripCovered ==
    \A x \in 0..(tiling.offWidth - 1) :
      \E k \in DOMAIN tiling.drawn :
        tiling.drawn[k].x <= x /\ x < tiling.drawn[k].x + tiling.tileW

\* C14: for every strip width >= 1 and tile width >= 1 the tiling loop
\* terminates; when it has ended every pixel column in [0, off.width) lies
\* inside a drawn tile, and it ended as soon as L <= 0 and R >= off.width
\* (before its last iteration one edge was still open).
C14_LoopTerminatesCovered ==
    /\ <>(tiling.pc = "done")
    /\ [](tiling.pc = "done" =>
            /\ StripCovered
            /\ tiling.L <= 0 /\ tiling.R >= tiling.offWidth
            /\ tiling.i > 1 =>
                 LoopContinues(tiling.L + tiling.tileW, tiling.R - tiling.tileW,
                               tiling.offWidth))

\* C14 witness: a loop that ended after two or more iterations, its strip
\* wider than two tiles.
C14_Witness ==
    /\ tiling.pc = "done"
    /\ tiling.i >= 3
    /\ tiling.offWidth > 2 * tiling.tileW
    /\ Len(tiling.drawn) >= 5
    /\ StripCovered

\* C12: every object URL the caller created for an uploaded motif is
\* eventually released: from the moment a later upload has replaced it as
\* motifSrc, or the component has gone away, it is eventually revoked.
C12_ReplacedUrlsRevoked ==
    \A u \in 1..(MaxUploads + 2) :
      [](/\ u \in objectUrls.created
         /\ (u # motifSrc \/ ~mounted)
         => <>(u \in objectUrls.revoked))

\* C15: across motifSrc changes, resolution completions and unmounts the
\* stored image and the stored tier agree: img is null exactly when
\* motifSource is 'none'.
C15_ImageAndTierAgree ==
    (img = NoImage) <=> (motifSource = "none")

\* C15 witness: after a motifSrc change and an unmount, with an earlier
\* resolution having ended with no image, the state holds the local image
\* under tier 'local'.
C15_Witness ==
    /\ ~mounted
    /\ Len(tasks) >= 2
    /\ tasks[1].pc = "done" /\ tasks[1].result.source = "none"
    /\ motifSource = "local"
    /\ img = ImageOf(fallbackMotif)

\* C11: starting from 1 to 10 plates, every operation of the controls
\* (addPlate, removePlate, setPlate, reorderPlates) leaves the list with 1 to
\* 10 plates; addPlate at 10 plates and removePlate at one plate leave the
\* list as it is.
C11_LengthStaysInRange ==
    [][/\ Len(plates) \in 1..PlateLimit => Len(plates') \in 1..PlateLimit
       /\ (ops' # ops /\ ops'.last = "addPlate" /\ Len(plates) = PlateLimit)
            => plates' = plates
       /\ (ops' # ops /\ ops'.last = "removePlate" /\ Len(plates) = 1)
            => plates' = plates]_vars

\* C11 witness: after an earlier operation, addPlate was issued at ten plates
\* and returned the list it was given.
C11_Witness ==
    /\ ops.count >= 2
    /\ ops.last = "addPlate"
    /\ ops.returnedSame
    /\ Len(plates) = PlateLimit

====
